---- MODULE Spec2Model ----
(***************************************************************************)
(* Points of interest (metaspex/poi, src/main.cpp): three services,        *)
(* poi_create, poi_delete and poi_search, over a document store and a      *)
(* process-wide kdcache index keyed by latitude, longitude and category.   *)
(*                                                                         *)
(* The services are modelled from src/main.cpp.  The kdcache container     *)
(* (build from a cursor, refresh after the staleness window, range         *)
(* search) and the document store (get, make, unpublish, commit at the end *)
(* of a service call) belong to the hx2a framework, whose code is not in  *)
(* this repository: their model follows the written specification (4.2).   *)
(***************************************************************************)
EXTENDS Integers, FiniteSets, Sequences

\* ---------------------------------------------------------------- bounds

\* The clock advances MaxTicks times, by TickSeconds each time: an index is
\* seen at the age 0, at an age within the staleness window and at ages beyond.
MaxTicks == 2
TickSeconds == 5
\* Documents created during a run.
MaxPois == 2
\* Requests received during a run.
MaxRequests == 4

\* ------------------------------------------------------ program constants

\* poi::category_t
ev_charging == 0
landmark == 1
museum == 2
restaurant == 3
shopping == 4

\* "We want to display max 100 pois."
D == 100
\* constexpr size_t search_limit = 100 + 1;
search_limit == D + 1
\* Number of documents acquired by the cursor at build or refresh.
BatchSize == 128
\* Variant of StalenessWindow: the 10 written as 0, no window at all.
ZeroSeconds == 10 - 10
\* Number of seconds before a new poi appears in the kdcache.
StalenessWindow == 10

\* ------------------------------------------------------------ value sets

\* The request-handling threads.
Procs == {1, 2}
None == 0
MaxTime == 1 + MaxTicks * TickSeconds
category_t == {ev_charging, landmark, museum, restaurant, shopping}

\* A position of the Foundation Ontology, or no position at all (a null own).
NoPos == [lat |-> -1000, lon |-> -1000]
position(lat, lon) == [lat |-> lat, lon |-> lon]

\* The payloads the clients send to poi_create: one with a position, one
\* without.
poi_create_payload(n, p, c) == [name |-> n, pos |-> p, category |-> c]
CreatePayloads ==
  { poi_create_payload("cafe", position(0, 0), restaurant),
    poi_create_payload("nowhere", NoPos, restaurant) }

\* interval<T>, closed on both sides; interval<T>{x} is the singleton [x, x].
interval(lo, hi) == [min |-> lo, max |-> hi]
Intervals == {interval(0, 0), interval(0, 1), interval(1, 1)}

\* The payloads the clients send to poi_search.
area_and_category(li, Li, c) == [li |-> li, Li |-> Li, category |-> c]
AllQueries ==
  { area_and_category(li, Li, c) : li \in Intervals, Li \in Intervals,
                                   c \in {museum, restaurant} }
\* The queries of the concurrent runs: one category over the whole area, the
\* other over one point.
Queries ==
  { area_and_category(interval(0, 1), interval(0, 1), restaurant),
    area_and_category(interval(0, 0), interval(0, 0), museum) }
NoQuery == area_and_category(interval(1, 0), interval(1, 0), ev_charging)

\* A poi document: the three fields of the class, the identifier and the last
\* save timestamp the store gives it.
poi(id, n, p, c, lst) == [id |-> id, name |-> n, pos |-> p, category |-> c, lst |-> lst]
NoDoc == poi(0, "", NoPos, ev_charging, 0)

get_latitude(p) == p.pos.lat
get_longitude(p) == p.pos.lon
get_category(p) == p.category

\* ---------------------------------------------------------------- state

VARIABLES
  store,        \* the committed documents of the logical database "hx2a"
  now,          \* the clock, in seconds
  nextId,       \* the next document identifier the store assigns
  indexState,   \* the static poi_index of get_poi_index: absent, constructing, built
  snapshot,     \* the documents the kdcache holds
  hwm,          \* last save timestamp of the most recent document ingested
  lastRefresh,  \* time of the last successful build or refresh
  builder,      \* the thread constructing or refreshing the index, or None
  pc,           \* each thread's position
  req,          \* search: the query of the request in progress
  pending,      \* the unit of work: the document to insert or to remove at commit
  cursor,       \* scan: the documents the cursor acquired and not yet inserted
  found,        \* search: e - i, the number of entries written to the array
  outcome,      \* the reply of the request
  sinceBuild,   \* history: identifiers created since the last successful build
  removed,      \* history: identifiers whose removal was committed
  purged,       \* history: identifiers removed before a successful refresh began
  arrival,      \* history: what held when the thread's request entered pi.search
  served        \* history: the number of requests received

vars == <<store, now, nextId, indexState, snapshot, hwm, lastRefresh, builder,
          pc, req, pending, cursor, found, outcome, sinceBuild, removed, purged,
          arrival, served>>

histVars == <<sinceBuild, removed, purged, arrival>>

\* A request is received: one more of the MaxRequests of a run.
Receive == served < MaxRequests /\ served' = served + 1
indexVars == <<indexState, snapshot, hwm, lastRefresh, builder>>

\* ---------------------------------------------------------------- replies

NoReply == [kind |-> "none", name |-> "", id |-> 0, pois |-> {}]
\* make<reply_id>(point->get_id())
reply_id(id) == [kind |-> "reply_id", name |-> "", id |-> id, pois |-> {}]
\* A service that returns nothing (poi_delete).
reply_void == [kind |-> "void", name |-> "", id |-> 0, pois |-> {}]
\* An exception thrown by the service: a named error.
error(tag) == [kind |-> "error", name |-> tag, id |-> 0, pois |-> {}]
\* Variant of zoom_in: the service returns a payload with an empty list
\* instead of the null payload.
zoom_inEmptyList == [kind |-> "pois", name |-> "", id |-> 0, pois |-> <<>>]

\* return {}; the null payload: "Please zoom in."
zoom_in == [kind |-> "zoom_in", name |-> "", id |-> 0, pois |-> {}]

position_is_missing == error("pmiss")
document_does_not_exist == error("dne")
build_failure == error("build")
store_failure == error("store")

\* poi_search_data_payload(p): name, a copy of the position, the identifier.
poi_search_data_payload(p) == [id |-> p.id, name |-> p.name, pos |-> p.pos]

\* pois_search_data_payload after push_data of every entry of a: the list
\* "pois", kept as the function from each pushed payload to the number of
\* times it was pushed (the order of the list is unspecified).
PushedOnce(a) == [s \in {poi_search_data_payload(p) : p \in a} |-> 1]
pois_search_data_payload(a) == [kind |-> "pois", name |-> "", id |-> 0, pois |-> PushedOnce(a)]

\* ------------------------------------------------------------- kdcache

InInterval(x, iv) == iv.min <= x /\ x <= iv.max

\* A document is in the search box: the three slices against the three intervals.
Matches(p, q) ==
  /\ InInterval(get_latitude(p), q.li)
  /\ InInterval(get_longitude(p), q.Li)
  /\ InInterval(get_category(p), interval(q.category, q.category))

MatchSet(snap, q) == {p \in snap : Matches(p, q)}

\* The subsets of S with k elements.
RECURSIVE KSubsets(_, _)
KSubsets(S, k) ==
  IF k = 0 THEN {{}}
  ELSE UNION {{T \cup {x} : x \in S \ T} : T \in KSubsets(S, k - 1)}

\* kdcache::search(i, limit, li, Li, ti): writes the matching documents to the
\* output, at most limit of them; which ones when more match is unspecified.
\* The possible contents of the array.
kd_search(snap, limit, q) ==
  LET M == MatchSet(snap, q)
      n == Cardinality(M)
  IN IF n <= limit THEN {M}
     ELSE {M \ dropped : dropped \in KSubsets(M, n - limit)}

\* "Number of seconds before a new poi appears in the kdcache": the index is
\* fresh for the staleness window after its last build or refresh.
Stale == now - lastRefresh >= StalenessWindow

Max(a, b) == IF a >= b THEN a ELSE b

\* The documents of S in the order of the cursor (last save timestamp, then
\* identifier): d comes before e.
Before(d, e) == d.lst < e.lst \/ (d.lst = e.lst /\ d.id < e.id)
First(S) == CHOOSE d \in S : \A e \in S \ {d} : Before(d, e)

\* Variant of scanSince: the documents saved at the high-water mark are
\* scanned again.
scanSinceInclusive(ts, batchSize) ==
  LET S == {d \in store : d.lst >= ts}
  IN IF Cardinality(S) <= batchSize THEN S
     ELSE {d \in S : Cardinality({e \in S : Before(e, d)}) < batchSize}

\* The cursor over the index by last save timestamp: the first batchSize
\* documents of the store saved strictly after ts.
scanSince(ts, batchSize) ==
  LET S == {d \in store : d.lst > ts}
  IN IF Cardinality(S) <= batchSize THEN S
     ELSE {d \in S : Cardinality({e \in S : Before(e, d)}) < batchSize}

\* History: the age of the index, the identifiers created since its last
\* successful build and the identifiers removed, when a request enters pi.search.
NoArrival == [age |-> -1, unseen |-> {}, gone |-> {}]
Arrival == [age |-> now - lastRefresh, unseen |-> sinceBuild, gone |-> removed]

\* --------------------------------------------------------------- Init

Init ==
  /\ store = {}
  /\ now = 1
  /\ nextId = 1
  /\ indexState = "absent"
  /\ snapshot = {}
  /\ hwm = 0
  /\ lastRefresh = 0
  /\ builder = None
  /\ pc = [p \in Procs |-> "idle"]
  /\ req = [p \in Procs |-> NoQuery]
  /\ pending = [p \in Procs |-> [op |-> "none", doc |-> NoDoc]]
  /\ cursor = [p \in Procs |-> {}]
  /\ found = [p \in Procs |-> 0]
  /\ outcome = [p \in Procs |-> NoReply]
  /\ sinceBuild = {}
  /\ removed = {}
  /\ purged = {}
  /\ arrival = [p \in Procs |-> NoArrival]
  /\ served = 0

\* ------------------------------------------------------------ the clock

Tick ==
  /\ now + TickSeconds <= MaxTime
  /\ now' = now + TickSeconds
  /\ UNCHANGED <<store, nextId, indexVars, pc, req, pending, cursor, found,
                 outcome, histVars, served>>

\* ----------------------------------------------------------- poi_create

\* Variant of poi_create: the position is not checked.
poi_createUnchecked(p, pcp) ==
  /\ pc[p] = "idle"
  /\ Receive
  /\ nextId <= MaxPois
  /\ pending' = [pending EXCEPT ![p] =
       [op |-> "insert", doc |-> poi(nextId, pcp.name, pcp.pos, pcp.category, 0)]]
  /\ nextId' = nextId + 1
  /\ outcome' = [outcome EXCEPT ![p] = reply_id(nextId)]
  /\ pc' = [pc EXCEPT ![p] = "commit"]
  /\ UNCHANGED <<store, now, indexVars, req, cursor, found, histVars>>

\* Variant of poi_create: the category of the payload is not passed on to the
\* document.
poi_createNoCategory(p, pcp) ==
  /\ pc[p] = "idle"
  /\ Receive
  /\ IF pcp.pos = NoPos
     THEN /\ outcome' = [outcome EXCEPT ![p] = position_is_missing]
          /\ pc' = [pc EXCEPT ![p] = "done"]
          /\ UNCHANGED <<pending, nextId>>
     ELSE /\ nextId <= MaxPois
          /\ pending' = [pending EXCEPT ![p] =
               [op |-> "insert", doc |-> poi(nextId, pcp.name, pcp.pos, ev_charging, 0)]]
          /\ nextId' = nextId + 1
          /\ outcome' = [outcome EXCEPT ![p] = reply_id(nextId)]
          /\ pc' = [pc EXCEPT ![p] = "commit"]
  /\ UNCHANGED <<store, now, indexVars, req, cursor, found, histVars>>

\* The body of the service: or_throw<position_is_missing>, then make<poi>.
\* The document is in the unit of work until the commit.
poi_create(p, pcp) ==
  /\ pc[p] = "idle"
  /\ Receive
  /\ IF pcp.pos = NoPos
     THEN /\ outcome' = [outcome EXCEPT ![p] = position_is_missing]
          /\ pc' = [pc EXCEPT ![p] = "done"]
          /\ UNCHANGED <<pending, nextId>>
     ELSE /\ nextId <= MaxPois
          /\ pending' = [pending EXCEPT ![p] =
               [op |-> "insert", doc |-> poi(nextId, pcp.name, pcp.pos, pcp.category, 0)]]
          /\ nextId' = nextId + 1
          /\ outcome' = [outcome EXCEPT ![p] = reply_id(nextId)]
          /\ pc' = [pc EXCEPT ![p] = "commit"]
  /\ UNCHANGED <<store, now, indexVars, req, cursor, found, histVars>>

\* ----------------------------------------------------------- poi_delete

\* Variant of poi_delete: a missing document is not an error.
poi_deleteSilent(p, id) ==
  /\ pc[p] = "idle"
  /\ Receive
  /\ IF \E d \in store : d.id = id
     THEN /\ pending' = [pending EXCEPT ![p] =
               [op |-> "remove", doc |-> CHOOSE d \in store : d.id = id]]
          /\ pc' = [pc EXCEPT ![p] = "commit"]
     ELSE /\ pc' = [pc EXCEPT ![p] = "done"]
          /\ UNCHANGED pending
  /\ outcome' = [outcome EXCEPT ![p] = reply_void]
  /\ UNCHANGED <<store, now, nextId, indexVars, req, cursor, found, histVars>>

\* Variant of poi_delete: the document leaves the store at unpublish, before
\* the end of the service.
poi_deleteEager(p, id) ==
  /\ pc[p] = "idle"
  /\ Receive
  /\ IF \E d \in store : d.id = id
     THEN /\ pending' = [pending EXCEPT ![p] =
               [op |-> "remove", doc |-> CHOOSE d \in store : d.id = id]]
          /\ store' = {d \in store : d.id # id}
          /\ outcome' = [outcome EXCEPT ![p] = reply_void]
          /\ pc' = [pc EXCEPT ![p] = "commit"]
     ELSE /\ outcome' = [outcome EXCEPT ![p] = document_does_not_exist]
          /\ pc' = [pc EXCEPT ![p] = "done"]
          /\ UNCHANGED <<pending, store>>
  /\ UNCHANGED <<now, nextId, indexVars, req, cursor, found, histVars>>

\* The body of the service: poi::get(...).or_throw<document_does_not_exist>,
\* then unpublish, which marks the document for removal.
poi_delete(p, id) ==
  /\ pc[p] = "idle"
  /\ Receive
  /\ IF \E d \in store : d.id = id
     THEN /\ pending' = [pending EXCEPT ![p] =
               [op |-> "remove", doc |-> CHOOSE d \in store : d.id = id]]
          /\ outcome' = [outcome EXCEPT ![p] = reply_void]
          /\ pc' = [pc EXCEPT ![p] = "commit"]
     ELSE /\ outcome' = [outcome EXCEPT ![p] = document_does_not_exist]
          /\ pc' = [pc EXCEPT ![p] = "done"]
          /\ UNCHANGED pending
  /\ UNCHANGED <<store, now, nextId, indexVars, req, cursor, found, histVars>>

\* ------------------------------------------------- the end of a service

\* The unit of work applied to the store: a new document is saved with the
\* time of the save as its last save timestamp, a marked one is removed.
Applied(u) ==
  IF u.op = "insert" THEN store \cup {[u.doc EXCEPT !.lst = now]}
  ELSE IF u.op = "remove" THEN {d \in store : d.id # u.doc.id}
  ELSE store

\* "No commit, it's done automatically by Metaspex at the end of a successful
\* service call."
Commit(p) ==
  /\ pc[p] = "commit"
  /\ store' = Applied(pending[p])
  /\ sinceBuild' = IF pending[p].op = "insert"
                   THEN sinceBuild \cup {pending[p].doc.id} ELSE sinceBuild
  /\ removed' = IF pending[p].op = "remove"
                THEN removed \cup {pending[p].doc.id} ELSE removed
  /\ pending' = [pending EXCEPT ![p] = [op |-> "none", doc |-> NoDoc]]
  /\ pc' = [pc EXCEPT ![p] = "done"]
  /\ UNCHANGED <<now, nextId, indexVars, req, cursor, found, outcome, purged, arrival, served>>

\* The save fails: the unit of work is rolled back and the error is the reply.
Rollback(p) ==
  /\ pc[p] = "commit"
  /\ pending' = [pending EXCEPT ![p] = [op |-> "none", doc |-> NoDoc]]
  /\ outcome' = [outcome EXCEPT ![p] = store_failure]
  /\ pc' = [pc EXCEPT ![p] = "done"]
  /\ UNCHANGED <<store, now, nextId, indexVars, req, cursor, found, histVars, served>>

\* The reply is sent; the thread takes the next request.
Return(p) ==
  /\ pc[p] = "done"
  /\ pc' = [pc EXCEPT ![p] = "idle"]
  /\ req' = [req EXCEPT ![p] = NoQuery]
  /\ found' = [found EXCEPT ![p] = 0]
  /\ outcome' = [outcome EXCEPT ![p] = NoReply]
  /\ arrival' = [arrival EXCEPT ![p] = NoArrival]
  /\ UNCHANGED <<store, now, nextId, indexVars, pending, cursor, sinceBuild, removed,
                 purged, served>>

\* ----------------------------------------------------------- poi_search

\* The request arrives: the service is entered with its query.
SearchCall(p, q) ==
  /\ pc[p] = "idle"
  /\ Receive
  /\ req' = [req EXCEPT ![p] = q]
  /\ pc' = [pc EXCEPT ![p] = "get_index"]
  /\ UNCHANGED <<store, now, nextId, indexVars, pending, cursor, found, outcome,
                 histVars>>

\* Variant of ConstructBegin: a static whose initialisation is not guarded, so
\* that a second thread enters the constructor while the first one runs it.
ConstructBeginRacy(p) ==
  /\ pc[p] = "get_index"
  /\ indexState # "built"
  /\ indexState' = "constructing"
  /\ builder' = p
  /\ snapshot' = {}
  /\ hwm' = 0
  /\ pc' = [pc EXCEPT ![p] = "scan"]
  /\ UNCHANGED <<store, now, nextId, lastRefresh, req, pending, cursor, found,
                 outcome, histVars, served>>

\* get_poi_index, first call: the thread that enters the initialisation of
\* the static runs the constructor, which builds the index from the beginning
\* of time.  The other threads wait at the static until it is initialised.
ConstructBegin(p) ==
  /\ pc[p] = "get_index"
  /\ indexState = "absent"
  /\ indexState' = "constructing"
  /\ builder' = p
  /\ snapshot' = {}
  /\ hwm' = 0
  /\ pc' = [pc EXCEPT ![p] = "scan"]
  /\ UNCHANGED <<store, now, nextId, lastRefresh, req, pending, cursor, found,
                 outcome, histVars, served>>

\* get_poi_index, later calls: return c.
GetIndex(p) ==
  /\ pc[p] = "get_index"
  /\ indexState = "built"
  /\ pc' = [pc EXCEPT ![p] = "search"]
  /\ UNCHANGED <<store, now, nextId, indexVars, req, pending, cursor, found,
                 outcome, histVars, served>>

\* A thread may read the kdcache: no build or refresh is in progress.
MayRead(p) == builder = None

\* pi.search after the staleness window: the thread takes the build path and
\* refreshes the index from the high-water mark.
RefreshBegin(p) ==
  /\ pc[p] = "search"
  /\ MayRead(p)
  /\ Stale
  /\ builder' = p
  /\ arrival' = [arrival EXCEPT ![p] = Arrival]
  /\ pc' = [pc EXCEPT ![p] = "scan"]
  /\ UNCHANGED <<store, now, nextId, indexState, snapshot, hwm, lastRefresh, req,
                 pending, cursor, found, outcome, sinceBuild, removed, purged, served>>

\* The cursor acquires the next batch of documents saved strictly after the
\* high-water mark.
ScanFetch(p) ==
  /\ pc[p] = "scan"
  /\ cursor[p] = {}
  /\ scanSince(hwm, BatchSize) # {}
  /\ cursor' = [cursor EXCEPT ![p] = scanSince(hwm, BatchSize)]
  /\ UNCHANGED <<store, now, nextId, indexVars, pc, req, pending, found, outcome,
                 histVars, served>>

\* Variant of ScanInsert: the insertion evicts the documents saved before the
\* one inserted.
ScanInsertEvicts(p) ==
  /\ pc[p] = "scan"
  /\ cursor[p] # {}
  /\ LET d == First(cursor[p])
     IN /\ snapshot' = {e \in snapshot : e.lst >= d.lst} \cup {d}
        /\ hwm' = Max(hwm, d.lst)
        /\ cursor' = [cursor EXCEPT ![p] = cursor[p] \ {d}]
  /\ UNCHANGED <<store, now, nextId, indexState, lastRefresh, builder, pc, req,
                 pending, found, outcome, histVars, served>>

\* One document of the batch is inserted in the kdcache; the high-water mark
\* follows the most recent last save timestamp.
ScanInsert(p) ==
  /\ pc[p] = "scan"
  /\ cursor[p] # {}
  /\ LET d == First(cursor[p])
     IN /\ snapshot' = snapshot \cup {d}
        /\ hwm' = Max(hwm, d.lst)
        /\ cursor' = [cursor EXCEPT ![p] = cursor[p] \ {d}]
  /\ UNCHANGED <<store, now, nextId, indexState, lastRefresh, builder, pc, req,
                 pending, found, outcome, histVars, served>>

\* The cursor is exhausted: the build or refresh succeeded.
ScanEnd(p) ==
  /\ pc[p] = "scan"
  /\ cursor[p] = {}
  /\ scanSince(hwm, BatchSize) = {}
  /\ indexState' = "built"
  /\ lastRefresh' = now
  /\ builder' = None
  /\ sinceBuild' = {}
  /\ purged' = purged \cup arrival[p].gone
  /\ pc' = [pc EXCEPT ![p] = IF indexState = "constructing" THEN "search" ELSE "query"]
  /\ UNCHANGED <<store, now, nextId, snapshot, hwm, req, pending, cursor, found,
                 outcome, removed, arrival, served>>

\* Variant of AfterFailure: a failed refresh leaves the index empty, to be
\* scanned again from the beginning of time.
AfterFailureForgets ==
  [state |-> IF indexState = "constructing" THEN "absent" ELSE indexState,
   snapshot |-> {}, hwm |-> 0]

\* What a failed build or refresh leaves: a constructor that throws leaves the
\* static uninitialised (the next call constructs it again); a failed refresh
\* leaves the index with what it had ingested.
AfterFailure ==
  IF indexState = "constructing"
  THEN [state |-> "absent", snapshot |-> {}, hwm |-> 0]
  ELSE [state |-> indexState, snapshot |-> snapshot, hwm |-> hwm]

\* Variant of FailureReply: the service catches the failure and replies an
\* empty list.
FailureReplyEmpty == pois_search_data_payload({})

\* poi_search catches nothing: the exception of a failed build or refresh leaves
\* the service and is the reply.
FailureReply == build_failure

\* Variant of ScanFail: the failure leaves the build path taken.
ScanFailHoldsIndex(p) ==
  /\ pc[p] = "scan"
  /\ cursor[p] = {}
  /\ indexState' = AfterFailure.state
  /\ snapshot' = AfterFailure.snapshot
  /\ hwm' = AfterFailure.hwm
  /\ outcome' = [outcome EXCEPT ![p] = FailureReply]
  /\ pc' = [pc EXCEPT ![p] = "done"]
  /\ UNCHANGED <<store, now, nextId, lastRefresh, builder, req, pending, cursor,
                 found, histVars, served>>

\* The store is unreachable or a document of the scan is malformed: the build
\* or refresh fails and the thread that triggered it gets the failure.
ScanFail(p) ==
  /\ pc[p] = "scan"
  /\ cursor[p] = {}
  /\ indexState' = AfterFailure.state
  /\ snapshot' = AfterFailure.snapshot
  /\ hwm' = AfterFailure.hwm
  /\ builder' = None
  /\ outcome' = [outcome EXCEPT ![p] = FailureReply]
  /\ pc' = [pc EXCEPT ![p] = "done"]
  /\ UNCHANGED <<store, now, nextId, lastRefresh, req, pending, cursor, found,
                 histVars, served>>

\* Variants of SearchReply: no test of the count; the test against the display
\* maximum instead of the search limit; a list cut to the display maximum.
SearchReplyNoOverflow(a) == pois_search_data_payload(a)
SearchReplyAtD(a) ==
  IF Cardinality(a) >= D THEN zoom_in ELSE pois_search_data_payload(a)
SearchReplyTruncated(a) ==
  IF Cardinality(a) = search_limit
  THEN pois_search_data_payload(a \ {CHOOSE x \in a : TRUE})
  ELSE pois_search_data_payload(a)

\* Variant of SearchReply: the overflow is decided when the count exceeds the
\* search limit.
SearchReplyOnExcess(a) ==
  IF Cardinality(a) > search_limit THEN zoom_in ELSE pois_search_data_payload(a)

\* The reply of poi_search for the array a that pi.search filled:
\* if (size_t(e - i) == search_limit) return {}; else the payload with one
\* poi_search_data_payload per entry.
SearchReply(a) ==
  IF Cardinality(a) = search_limit THEN zoom_in ELSE pois_search_data_payload(a)

\* pi.search on a fresh index, or once the thread's own refresh is done, and
\* the rest of the service.
SearchQuery(p) ==
  /\ \/ pc[p] = "search" /\ ~Stale /\ arrival' = [arrival EXCEPT ![p] = Arrival]
     \/ pc[p] = "query" /\ UNCHANGED arrival
  /\ MayRead(p)
  /\ \E a \in kd_search(snapshot, search_limit, req[p]) :
       /\ found' = [found EXCEPT ![p] = Cardinality(a)]
       /\ outcome' = [outcome EXCEPT ![p] = SearchReply(a)]
  /\ pc' = [pc EXCEPT ![p] = "done"]
  /\ UNCHANGED <<store, now, nextId, indexVars, req, pending, cursor, sinceBuild,
                 removed, purged, served>>

\* ------------------------------------------------------ specifications

Next ==
  \/ Tick
  \/ \E p \in Procs, pcp \in CreatePayloads : poi_create(p, pcp)
  \/ \E p \in Procs, id \in 1..MaxPois : poi_delete(p, id)
  \/ \E p \in Procs, q \in Queries : SearchCall(p, q)
  \/ \E p \in Procs :
       \/ Commit(p)
       \/ Rollback(p)
       \/ Return(p)
       \/ ConstructBegin(p)
       \/ GetIndex(p)
       \/ RefreshBegin(p)
       \/ ScanFetch(p)
       \/ ScanInsert(p)
       \/ ScanEnd(p)
       \/ ScanFail(p)
       \/ SearchQuery(p)

Spec == Init /\ [][Next]_vars

\* A step of poi_search by thread p, from get_poi_index to the reply.
SearchStep(p) ==
  \/ ConstructBegin(p)
  \/ GetIndex(p)
  \/ RefreshBegin(p)
  \/ ScanFetch(p)
  \/ ScanInsert(p)
  \/ ScanEnd(p)
  \/ SearchQuery(p)

\* The payloads that poi_create accepts.
ValidPayloads == {pcp \in CreatePayloads : pcp.pos # NoPos}

\* The searches with what feeds their builds and refreshes: the clock, the
\* documents created and committed, the failures of a scan.
NextIndex ==
  \/ Tick
  \/ \E p \in Procs, pcp \in ValidPayloads : poi_create(p, pcp)
  \/ \E p \in Procs, q \in Queries : SearchCall(p, q)
  \/ \E p \in Procs :
       \/ Commit(p)
       \/ Return(p)
       \/ SearchStep(p)
       \/ ScanFail(p)

\* The threads are scheduled and the calls to the store end: a thread in
\* poi_search that can take a step again and again takes one (a thread that
\* waits for the index gets it once it is free often enough).  Nothing
\* is assumed of the clock, of the arrival of requests nor of failures.
FairSpec == Init /\ [][NextIndex]_vars /\ \A p \in Procs : SF_vars(SearchStep(p))

\* ------------------------------------ the search over a given index

\* The numbers of documents of one category at one position an index is
\* given: none, one, and the display maximum with its two neighbours.
BulkSizes == {0, 1, D - 1, D, D + 1}

\* An index of nA restaurants and nB museums at (0, 0) and nC restaurants at
\* (1, 1), all saved at time 1.
Bulk(nA, nB, nC) ==
  {poi(i, "poi", position(0, 0), restaurant, 1) : i \in 1..nA}
  \cup {poi(nA + i, "poi", position(0, 0), museum, 1) : i \in 1..nB}
  \cup {poi(nA + nB + i, "poi", position(1, 1), restaurant, 1) : i \in 1..nC}

\* The index is built and fresh, over a store of nA + nB + nC documents.
InitSearch ==
  /\ \E nA \in BulkSizes, nB \in {0, 1}, nC \in {0, 1} :
       /\ store = Bulk(nA, nB, nC)
       /\ snapshot = Bulk(nA, nB, nC)
       /\ nextId = nA + nB + nC + 1
  /\ now = 1
  /\ indexState = "built"
  /\ hwm = 1
  /\ lastRefresh = 1
  /\ builder = None
  /\ pc = [p \in Procs |-> "idle"]
  /\ req = [p \in Procs |-> NoQuery]
  /\ pending = [p \in Procs |-> [op |-> "none", doc |-> NoDoc]]
  /\ cursor = [p \in Procs |-> {}]
  /\ found = [p \in Procs |-> 0]
  /\ outcome = [p \in Procs |-> NoReply]
  /\ sinceBuild = {}
  /\ removed = {}
  /\ purged = {}
  /\ arrival = [p \in Procs |-> NoArrival]
  /\ served = 0

NextSearch ==
  \/ \E p \in Procs, q \in AllQueries : SearchCall(p, q)
  \/ \E p \in Procs :
       \/ GetIndex(p)
       \/ SearchQuery(p)
       \/ Return(p)

\* Concurrent searches, every query, over each given index.
SpecSearch == InitSearch /\ [][NextSearch]_vars

\* ------------------------------------ every service, over either index

\* No document and no index yet, or a built index that holds more documents
\* of one category than a search may return.
InitAll == Init \/ (InitSearch /\ store = Bulk(D + 1, 0, 0))

\* The three services, from the empty store and from the full index.
SpecAll == InitAll /\ [][Next]_vars

\* =================================================================
\* The claims.
\* =================================================================

\* The documents of an index inside the closed box of a query and of its category.
InBox(d, q) ==
  /\ q.li.min <= d.pos.lat /\ d.pos.lat <= q.li.max
  /\ q.Li.min <= d.pos.lon /\ d.pos.lon <= q.Li.max
  /\ d.category = q.category
Box(q) == {d \in snapshot : InBox(d, q)}
Summary(d) == [id |-> d.id, name |-> d.name, pos |-> d.pos]
\* The thread's search has been answered from the index.
Answered(p) == pc[p] = "done" /\ outcome[p].kind \in {"pois", "zoom_in"}
\* The step in which the thread's search reads the index.
Reads(p) == pc[p] \in {"search", "query"} /\ pc'[p] = "done"

\* C1 (SpecSearch): whenever more than D = 100 documents of the index match
\* the query, the reply is the zoom-in signal, not a list.
C1_Overflow ==
  \A p \in Procs :
    (pc[p] = "done" /\ Cardinality(Box(req[p])) > D) => outcome[p] = zoom_in

C1_Witness ==
  \E p \in Procs :
    pc[p] = "done" /\ Cardinality(Box(req[p])) = D + 1 /\ outcome[p] = zoom_in

\* C2 (SpecSearch): whenever at most D documents match, exactly D included,
\* the reply is the list holding, once each, the documents of the index in the
\* closed intervals and of the queried category, and no others.
C2_Exact ==
  \A p \in Procs :
    (pc[p] = "done" /\ Cardinality(Box(req[p])) <= D) =>
      /\ outcome[p].kind = "pois"
      /\ DOMAIN outcome[p].pois = {Summary(d) : d \in Box(req[p])}
      /\ \A s \in DOMAIN outcome[p].pois : outcome[p].pois[s] = 1

\* D matches, all returned, and a document at the same coordinates in
\* another category, left out.
C2_Witness ==
  \E p \in Procs :
    /\ pc[p] = "done"
    /\ outcome[p].kind = "pois"
    /\ Cardinality(DOMAIN outcome[p].pois) = D
    /\ \E d \in snapshot, e \in Box(req[p]) :
         d.pos = e.pos /\ d.category # e.category

\* C3 (Spec): a list returned by a search that entered the index less than 10
\* seconds after its last successful build or refresh holds no document
\* created after that build or refresh.
C3_NotBeforeWindow ==
  \A p \in Procs :
    (pc[p] = "done" /\ outcome[p].kind = "pois" /\ arrival[p].age \in 0..9) =>
      \A s \in DOMAIN outcome[p].pois : s.id \notin arrival[p].unseen

\* A committed document that matches the query, created after the last build,
\* and a search within the window that did not return it.
C3_Witness ==
  \E p \in Procs :
    /\ pc[p] = "done" /\ outcome[p].kind = "pois" /\ arrival[p].age \in 0..9
    /\ \E d \in store :
         /\ d.id \in arrival[p].unseen
         /\ InBox(d, req[p])
         /\ Summary(d) \notin DOMAIN outcome[p].pois

\* C4 (Spec), as claimed: a list returned by a search that entered the index
\* 10 seconds or more after its last build, and whose refresh succeeded, holds
\* every matching document of the store created after that build.
C4_VisibleAfterWindow ==
  \A p \in Procs :
    (pc[p] = "done" /\ outcome[p].kind = "pois" /\ arrival[p].age >= 10) =>
      \A d \in store :
        (d.id \in arrival[p].unseen /\ InBox(d, req[p])) =>
          Summary(d) \in DOMAIN outcome[p].pois

\* C5 (Spec), as claimed: no list returned by a search holds a document whose
\* removal was committed before a refresh that has since succeeded.
C5_DeletedNotReturned ==
  [][\A p \in Procs :
       (Reads(p) /\ outcome'[p].kind = "pois") =>
         \A s \in DOMAIN outcome'[p].pois : s.id \notin purged]_vars

\* C6 (Spec): at most one thread is constructing or refreshing the index.
C6_OneBuilder == Cardinality({p \in Procs : pc[p] = "scan"}) <= 1

\* One thread refreshes the index; another one, which also found the window
\* elapsed, waits.
C6_Witness ==
  \E p \in Procs, r \in Procs :
    /\ pc[p] = "scan" /\ indexState = "built"
    /\ pc[r] = "search" /\ Stale

\* C7 (Spec): no search reads the index while a build or refresh is scanning:
\* what it reads is the index as a completed or abandoned scan left it.
C7_NoPartialRead ==
  [][\A p \in Procs :
       (Reads(p) /\ outcome'[p].kind \in {"pois", "zoom_in"}) =>
         \A r \in Procs : pc[r] # "scan"]_vars

\* A search waits at the index while a scan has inserted a part of its batch.
C7_Witness ==
  \E p \in Procs, r \in Procs :
    /\ pc[p] = "search"
    /\ pc[r] = "scan" /\ cursor[r] # {} /\ snapshot # {}

\* C8 (SpecSearch): two answered searches with the same query over the same
\* index have the same reply.
C8_SameReply ==
  \A p \in Procs, r \in Procs :
    (Answered(p) /\ Answered(r) /\ req[p] = req[r]) => outcome[p] = outcome[r]

\* Two searches of the same query over an index with D + 2 matches.
C8_Witness ==
  \E p \in Procs, r \in Procs :
    /\ p # r /\ Answered(p) /\ Answered(r) /\ req[p] = req[r]
    /\ Cardinality(Box(req[p])) = D + 2

\* C9 (Spec): while a thread refreshes the index, no step takes a document
\* out of it or un-builds it, and a refresh that fails replies the failure to
\* its thread and releases the index.
C9_FailedRefresh ==
  [][\A p \in Procs :
       (pc[p] = "scan" /\ indexState = "built") =>
         /\ snapshot \subseteq snapshot'
         /\ indexState' = "built"
         /\ pc'[p] = "done" =>
              (outcome'[p] = error("build") /\ builder' = None)]_vars

\* A refresh failed for one thread, and a search of another thread is
\* answered with documents of the index.
C9_Witness ==
  \E p \in Procs, r \in Procs :
    /\ pc[p] = "done" /\ outcome[p] = error("build") /\ arrival[p].age >= 0
    /\ pc[r] = "done" /\ outcome[r].kind = "pois" /\ DOMAIN outcome[r].pois # {}

\* C10 (Spec): poi_create of a payload without position replies the error
\* "pmiss" and leaves the store, its identifiers and the unit of work as
\* they were.
C10_MissingPosition ==
  [][\A p \in Procs, pcp \in CreatePayloads :
       (pcp.pos = NoPos /\ poi_create(p, pcp)) =>
         /\ outcome'[p] = error("pmiss")
         /\ pc'[p] = "done"
         /\ store' = store /\ nextId' = nextId /\ pending' = pending]_vars

C10_Witness ==
  \E p \in Procs : pc[p] = "done" /\ outcome[p] = error("pmiss")

\* C11 (Spec): poi_delete of an identifier the store does not hold replies
\* the error "dne" and leaves the store, the unit of work and the index as
\* they were.
C11_UnknownId ==
  [][\A p \in Procs, id \in 1..MaxPois :
       ((\A d \in store : d.id # id) /\ poi_delete(p, id)) =>
         /\ outcome'[p] = error("dne")
         /\ pc'[p] = "done"
         /\ store' = store /\ pending' = pending
         /\ snapshot' = snapshot /\ hwm' = hwm /\ indexState' = indexState]_vars

C11_Witness ==
  \E p \in Procs : pc[p] = "done" /\ outcome[p] = error("dne")

\* C12 (Spec): a document leaves the store only in the step that commits the
\* unit of work of a poi_delete of that document, and the documents that stay
\* keep their fields; the body of poi_delete and a rollback leave the store
\* as it was.
C12_RemovedAtCommit ==
  [][\A d \in store :
       d \notin store' =>
         \E p \in Procs :
           /\ pc[p] = "commit" /\ pending[p].op = "remove" /\ pending[p].doc = d
           /\ pc'[p] = "done" /\ outcome'[p] = reply_void]_vars

\* A poi_delete has marked a document, which is still in the store.
C12_Witness ==
  \E p \in Procs :
    pc[p] = "commit" /\ pending[p].op = "remove" /\ pending[p].doc \in store

\* C13 (Spec): poi_create of a payload with a position puts in the unit of
\* work a document with the name, position and category of the payload and
\* replies its identifier; the commit of that unit of work leaves in the store
\* exactly one document of that identifier, with these fields.
C13_ReadBack ==
  [][\A p \in Procs :
       /\ \A pcp \in CreatePayloads :
            (pcp.pos # NoPos /\ poi_create(p, pcp)) =>
              /\ outcome'[p].kind = "reply_id"
              /\ pending'[p].op = "insert"
              /\ pending'[p].doc.id = outcome'[p].id
              /\ pending'[p].doc.name = pcp.name
              /\ pending'[p].doc.pos = pcp.pos
              /\ pending'[p].doc.category = pcp.category
       /\ (pc[p] = "commit" /\ pending[p].op = "insert" /\ pc'[p] = "done"
           /\ outcome'[p].kind = "reply_id") =>
              /\ outcome'[p].id = pending[p].doc.id
              /\ Cardinality({d \in store' : d.id = outcome'[p].id}) = 1
              /\ \A d \in store' :
                   d.id = outcome'[p].id =>
                     /\ d.name = pending[p].doc.name
                     /\ d.pos = pending[p].doc.pos
                     /\ d.category = pending[p].doc.category]_vars

\* The identifier of a created document is the reply, and the store holds the
\* document with the fields sent.
C13_Witness ==
  \E p \in Procs :
    /\ pc[p] = "done" /\ outcome[p].kind = "reply_id"
    /\ \E d \in store :
         /\ d.id = outcome[p].id
         /\ d.name = "cafe" /\ d.pos = position(0, 0) /\ d.category = restaurant

\* The three kinds of outcome of a request.
IsSuccess(o) == o.kind \in {"reply_id", "void", "pois"}
IsNamedError(o) == o.kind = "error" /\ o.name \in {"pmiss", "dne", "build", "store"}
IsOverflow(o) == o.kind = "zoom_in"

\* C14 (SpecAll): a request that has ended has exactly one of the three kinds
\* of outcome (success payload, named error, overflow signal); and a search
\* that ended with a payload or the overflow signal replies the payload with
\* the empty list exactly when pi.search found nothing, so that the overflow
\* signal is never that payload.
C14_OneOutcome ==
  \A p \in Procs :
    pc[p] = "done" =>
      /\ Cardinality({k \in 1..3 :
             \/ k = 1 /\ IsSuccess(outcome[p])
             \/ k = 2 /\ IsNamedError(outcome[p])
             \/ k = 3 /\ IsOverflow(outcome[p])}) = 1
      /\ outcome[p].kind \in {"pois", "zoom_in"} =>
           ((outcome[p].kind = "pois" /\ DOMAIN outcome[p].pois = {})
              <=> found[p] = 0)

\* One search ended with the overflow signal while the other got the empty
\* list.
C14_Witness ==
  \E p, r \in Procs :
    /\ pc[p] = "done" /\ outcome[p] = zoom_in /\ found[p] = search_limit
    /\ pc[r] = "done" /\ outcome[r].kind = "pois" /\ found[r] = 0

C16_OnlyGrows ==
  [][indexState = "built" => snapshot \subseteq snapshot']_vars

\* A refresh has ended with a document of the build and a document of a later
\* save in the snapshot.
C16_Witness ==
  /\ indexState = "built" /\ builder = None /\ lastRefresh > 1
  /\ \E d, e \in snapshot : d.lst = 1 /\ e.lst > 1

\* The most recent last save timestamp of the documents of S, 0 for none.
MaxLst(S) == IF S = {} THEN 0 ELSE CHOOSE t \in {d.lst : d \in S} : \A d \in S : d.lst <= t

\* The snapshot holds documents that were saved in the store (they are in it
\* or were removed from it), none saved after the high-water mark, and the
\* mark is the most recent last save timestamp of the snapshot.
C17_Ingested ==
  /\ \A d \in snapshot : d.lst <= hwm /\ (d \in store \/ d.id \in removed)
  /\ hwm = MaxLst(snapshot)

\* C17 (Spec): C17_Ingested holds before and after every step; a batch is
\* made of documents of the store saved strictly after the high-water mark,
\* and a build or refresh adds to the snapshot only documents of its batch,
\* none saved before a document the snapshot already holds.
C17_StrictlyAfterMark ==
  [][/\ C17_Ingested /\ C17_Ingested'
     /\ \A p \in Procs :
          cursor'[p] # cursor[p] =>
            /\ cursor'[p] \subseteq cursor[p] \cup {d \in store : d.lst > hwm}
            /\ cursor'[p] # {} => builder = p
     /\ snapshot' # snapshot /\ indexState' # "absent" =>
          /\ builder # None
          /\ snapshot' \ snapshot \subseteq cursor[builder]
          /\ \A d \in snapshot' \ snapshot : \A e \in snapshot : d.lst >= e.lst]_vars

\* A refresh has ended that ingested a document saved after the mark of the
\* build.
C17_Witness ==
  /\ indexState = "built" /\ builder = None /\ lastRefresh > 1 /\ hwm > 1
  /\ \E d \in snapshot : d.lst = hwm
  /\ \E d \in snapshot : d.lst < hwm

\* C18 (Spec): no index exists before a request is received; the index comes
\* to exist only by a search that enters get_poi_index and runs the
\* constructor; while it is constructed no second thread enters the
\* constructor; once built it stays built (a later search gets that index);
\* and the steps of poi_create and poi_delete, the arrival of a request and
\* the end of a service leave the index as it is.
C18_OneIndex ==
  [][/\ served = 0 => indexState = "absent"
     /\ indexState = "built" => indexState' = "built"
     /\ indexState = "constructing" /\ indexState' = "constructing" =>
          builder' = builder /\ builder # None
     /\ indexState = "absent" /\ indexState' # "absent" =>
          \E p \in Procs :
            /\ pc[p] = "get_index" /\ req[p] # NoQuery /\ pc'[p] = "scan"
            /\ indexState' = "constructing" /\ builder' = p
     /\ \A p \in Procs :
          pc[p] \in {"idle", "commit", "done"} /\ pc'[p] # pc[p] =>
            UNCHANGED indexVars]_vars

\* Both threads are in poi_search with the index built: one constructed it or
\* waited for it, and neither constructs a second one.
C18_Witness ==
  /\ indexState = "built" /\ builder = None
  /\ \A p \in Procs : pc[p] = "search" /\ found[p] = 0

\* C19 (FairSpec): every search that has entered the service gets an
\* outcome, wherever it is: at get_poi_index (the index absent, constructed by
\* the other thread or built), at pi.search (fresh or stale, the other thread
\* refreshing or not), or in its own build or refresh.
C19_SearchReturns ==
  \A p \in Procs :
    (pc[p] \in {"get_index", "search", "scan", "query"}) ~> (pc[p] = "done")

\* A search waits while the other thread builds or refreshes the index.
C19_Witness ==
  \E p, r \in Procs :
    /\ pc[p] \in {"get_index", "search"}
    /\ builder = r /\ r # p /\ pc[r] = "scan"

\* C20 (SpecSearch): pi.search called with the limit D + 1 wrote at most D + 1
\* entries in the array of D + 1 slots, all of them documents of the box; the
\* reply is the overflow signal exactly when D + 1 entries were written; and a
\* payload holds one summary per entry written, at most D.
C20_Buffer ==
  \A p \in Procs :
    pc[p] = "done" =>
      /\ found[p] <= D + 1
      /\ found[p] <= Cardinality(Box(req[p]))
      /\ outcome[p] = zoom_in <=> found[p] = D + 1
      /\ outcome[p].kind = "pois" =>
           /\ Cardinality(DOMAIN outcome[p].pois) = found[p]
           /\ Cardinality(DOMAIN outcome[p].pois) <= D

\* More documents match than the array holds: D + 1 were written and the reply
\* is the overflow signal, while the other thread got a payload of one summary.
C20_Witness ==
  \E p, r \in Procs :
    /\ pc[p] = "done" /\ Cardinality(Box(req[p])) = D + 2
    /\ found[p] = D + 1 /\ outcome[p] = zoom_in
    /\ pc[r] = "done" /\ outcome[r].kind = "pois" /\ found[r] = 1

====
